---- MODULE Spec2Model ----
(***************************************************************************)
(* A model of particle_filter/scripts/pf_level2.py: the OccupancyField     *)
(* distance field and the ParticleFilter node (movement gate, motion       *)
(* update, likelihood-field sensor update, normalisation, resampling,      *)
(* pose estimate and the exported particle clouds).                        *)
(*                                                                         *)
(* Numbers.  Lengths are integers in centimetres, angles are integers in   *)
(* hundredths of a turn (TAU = 100, so pi = 50 and a_thresh = 0.04*TAU =   *)
(* 4).  cos and sin are a table of round(100*cos), and every product with  *)
(* them is rounded to the nearest centimetre.  Particle weights and the    *)
(* estimated pose are exact rationals [n, d], with d = 0 standing for the  *)
(* float NaN.                                                              *)
(***************************************************************************)
EXTENDS Integers, Sequences, FiniteSets, TLC

VARIABLES
    initialized,            \* self.initialized
    occupancy_field,        \* self.occupancy_field: [map, closest_occupied]
    particle_cloud,         \* self.particle_cloud: a list of object references
    heap,                   \* the Particle objects the references point to
    current_odom_xy_theta,  \* self.current_odom_xy_theta: <<>> or <<x, y, theta>>
    robot_pose,             \* self.robot_pose
    translation,            \* self.translation (unset until the first fix)
    rotation,               \* self.rotation
    handler,                \* history: what the last callback did
    published,              \* history: what the last callback published, in order
    cycles,                 \* history: number of filter cycles started
    probe,                  \* a query put to a pure function, and its answer
    fix_call,               \* the callback thread inside fix_map_to_odom_transform
    main_loop               \* the main thread inside broadcast_last_transform

vars == <<initialized, occupancy_field, particle_cloud, heap,
          current_odom_xy_theta, robot_pose, translation, rotation,
          handler, published, cycles, probe, fix_call, main_loop>>

thread_vars == <<fix_call, main_loop>>

filter_vars == <<initialized, occupancy_field, particle_cloud, heap,
                 current_odom_xy_theta, robot_pose, translation, rotation,
                 handler, published, cycles>>

-----------------------------------------------------------------------------
(* Arithmetic *)

Abs(a) == IF a < 0 THEN -a ELSE a

\* int(n / d) of Python for d > 0: truncation toward zero
Trunc(n, d) == IF n >= 0 THEN n \div d ELSE -((-n) \div d)

\* n / d rounded to the nearest integer, d > 0
RDiv(n, d) == (2 * n + d) \div (2 * d)

RECURSIVE Gcd(_, _)
Gcd(a, b) == IF b = 0 THEN a ELSE Gcd(b, a % b)

\* floats: a rational n/d in lowest terms with d > 0, or NaN
NaN == [n |-> 0, d |-> 0]
IsNaN(q) == q.d = 0
Q(n) == [n |-> n, d |-> 1]
QNorm(n, d) ==
    LET g == Gcd(Abs(n), Abs(d))
        s == IF d < 0 THEN -1 ELSE 1
    IN [n |-> s * (n \div g), d |-> s * (d \div g)]
QAdd(a, b) == IF IsNaN(a) \/ IsNaN(b) THEN NaN
              ELSE QNorm(a.n * b.d + b.n * a.d, a.d * b.d)
QMul(a, b) == IF IsNaN(a) \/ IsNaN(b) THEN NaN
              ELSE QNorm(a.n * b.n, a.d * b.d)
\* a / b; the filter only divides by a sum of weights, which is positive or NaN
QDiv(a, b) == IF IsNaN(a) \/ IsNaN(b) \/ b.n = 0 THEN NaN
              ELSE QNorm(a.n * b.d, a.d * b.n)
QPos(a) == ~IsNaN(a) /\ a.n > 0
QLess(a, b) == ~IsNaN(a) /\ ~IsNaN(b) /\ a.n * b.d < b.n * a.d

TAU == 100

\* round(100 * cos(2*pi*k/100)) for k = 0..25
CosQ == <<100, 100, 99, 98, 97, 95, 93, 90, 88, 84, 81, 77, 73, 68, 64, 59,
          54, 48, 43, 37, 31, 25, 19, 13, 6, 0>>

\* math.cos and math.sin, times 100
Cos(a) ==
    LET m == a % TAU
    IN IF m <= 25 THEN CosQ[m + 1]
       ELSE IF m <= 50 THEN -CosQ[50 - m + 1]
       ELSE IF m <= 75 THEN -CosQ[m - 50 + 1]
       ELSE CosQ[TAU - m + 1]
Sin(a) == Cos(a - 25)

\* the odometry samples <<x, y, yaw>> the model draws, yaw in (-50, 50]
OdomSamples == {<<0, 0, 0>>, <<3, 3, 0>>, <<5, 0, 0>>, <<0, 0, 49>>, <<0, 0, -49>>}

\* the direction in (-50, 50] closest to (dx, dy)
Direction(dy, dx) ==
    IF dx = 0 /\ dy = 0 THEN 0
    ELSE LET Dot(a) == dx * Cos(a) + dy * Sin(a)
             Cross(a) == Abs(dx * Sin(a) - dy * Cos(a))
             Ahead == {a \in -49..50 : Dot(a) > 0}
             Best == {a \in Ahead : \A b \in Ahead : Cross(a) <= Cross(b)}
         IN CHOOSE a \in Best : \A b \in Best : Abs(a) <= Abs(b)

\* Direction, tabulated once for the displacements between odometry samples
DirectionTable ==
    [d \in {<<a[1] - b[1], a[2] - b[2]>> : a \in OdomSamples, b \in OdomSamples} |->
        Direction(d[2], d[1])]

\* math.atan2(dy, dx)
Atan2(dy, dx) == DirectionTable[<<dx, dy>>]

\* sqrt(v) rounded to the nearest integer, and rounded down
RoundSqrt(v) == CHOOSE r \in 0..(v + 1) :
                    /\ (r = 0 \/ (2 * r - 1) * (2 * r - 1) <= 4 * v)
                    /\ 4 * v < (2 * r + 1) * (2 * r + 1)
FloorSqrt(v) == CHOOSE r \in 0..(v + 1) : r * r <= v /\ v < (r + 1) * (r + 1)

\* np.linalg.norm([dx, dy])
Norm2(dx, dy) == RoundSqrt(dx * dx + dy * dy)

\* scipy.stats.norm.pdf(loc = 0, scale = 0.05, x = dist), rounded to an integer;
\* dist in centimetres; pdf(nan) is nan
NormPdf(dist) ==
    IF IsNaN(dist) THEN NaN
    ELSE LET c == Abs(dist.n)
         IN Q(IF c <= 1 THEN 8 ELSE IF c <= 3 THEN 7 ELSE IF c = 4 THEN 6
              ELSE IF c = 5 THEN 5 ELSE IF c = 6 THEN 4 ELSE IF c = 7 THEN 3
              ELSE IF c <= 9 THEN 2 ELSE IF c <= 11 THEN 1 ELSE 0)

-----------------------------------------------------------------------------
(* The map and the OccupancyField *)

\* A nav_msgs/OccupancyGrid: 4 x 3 cells of 1 m, origin (-2 m, -1.5 m);
\* data is row major, < 0 unknown, 0 free, > 0 occupied.
TheMap ==
    [width |-> 4, height |-> 3, resolution |-> 100,
     origin_x |-> -200, origin_y |-> -150,
     data |-> << 0,  0, 0,   0,
                 0, -1, 0, 100,
               100,  0, 0,   0 >>]

\* OccupancyField.__init__ reading the neighbour distances by the row-major
\* index ind instead of the loop counter curr
ClosestOccupiedRowMajor(map) ==
    LET W == map.width
        H == map.height
        Cells == (0..(W - 1)) \X (0..(H - 1))
        Occupied == {c \in Cells : map.data[c[1] + c[2] * W + 1] > 0}
        D2(c, o) == (c[1] - o[1]) * (c[1] - o[1]) + (c[2] - o[2]) * (c[2] - o[2])
        Nearest2(c) == CHOOSE v \in {D2(c, o) : o \in Occupied} :
                           \A o \in Occupied : v <= D2(c, o)
        distances == [curr \in 0..(W * H - 1) |->
                         Nearest2(<<curr \div H, curr % H>>)]
    IN [ind \in 0..(W * H - 1) |->
           FloorSqrt(distances[ind] * map.resolution * map.resolution)]

\* OccupancyField.__init__: closest_occupied[i + j*width] is the distance from
\* cell (i, j) to the nearest cell with data > 0, times the resolution.  The
\* code numbers the cells curr = i*height + j in all three of its loops.
ClosestOccupied(map) ==
    LET W == map.width
        H == map.height
        Cells == {c \in (0..(W - 1)) \X (0..(H - 1)) : TRUE}
        Occupied == {c \in Cells : map.data[c[1] + c[2] * W + 1] > 0}
        D2(c, o) == (c[1] - o[1]) * (c[1] - o[1]) + (c[2] - o[2]) * (c[2] - o[2])
        Nearest2(c) == CHOOSE v \in {D2(c, o) : o \in Occupied} :
                           \A o \in Occupied : v <= D2(c, o)
        distances == [curr \in 0..(W * H - 1) |->
                         Nearest2(<<curr \div H, curr % H>>)]
    IN [ind \in 0..(W * H - 1) |->
           LET i == ind % W
               j == ind \div W
           IN FloorSqrt(distances[i * H + j] * map.resolution * map.resolution)]

OccupancyField(map) == [map |-> map, closest_occupied |-> ClosestOccupied(map)]

\* OccupancyField.get_closest_obstacle_distance(x, y)
get_closest_obstacle_distance(field, x, y) ==
    LET map == field.map
        x_coord == Trunc(x - map.origin_x, map.resolution)
        y_coord == Trunc(y - map.origin_y, map.resolution)
        ind == x_coord + y_coord * map.width
    IN IF x_coord > map.width \/ x_coord < 0 THEN NaN
       ELSE IF y_coord > map.height \/ y_coord < 0 THEN NaN
       ELSE IF ind >= map.width * map.height \/ ind < 0 THEN NaN
       ELSE Q(field.closest_occupied[ind])

-----------------------------------------------------------------------------
(* Particles *)

\* ParticleFilter.__init__: self.n_particles (30 in the source; the model
\* runs the same code on a smaller population)
n_particles == 2
d_thresh == 4
a_thresh == 4
num_pt_check == 25
\* filter_laser keeps 0.0 < r < 3.5
LaserMax == 350

\* Particle.__init__(x, y, theta, w = 1.0)
Particle(x, y, theta) == [x |-> x, y |-> y, theta |-> theta, w |-> Q(1)]

\* object identities; a generation being replaced and its successor coexist
Ids == 1..(2 * n_particles)

\* the k smallest identities not in live, in order: the objects a constructor
\* or deepcopy allocates
RECURSIVE NewIds(_, _)
NewIds(live, k) ==
    IF k = 0 THEN <<>>
    ELSE LET free == Ids \ live
             m == CHOOSE a \in free : \A b \in free : a <= b
         IN <<m>> \o NewIds(live \cup {m}, k - 1)

Range(s) == {s[i] : i \in DOMAIN s}

\* the particles of a cloud, by value, in list order
Values(cloud, h) == [i \in 1..Len(cloud) |-> h[cloud[i]]]

\* Particle.as_pose for every particle: publish_particles sends poses, not weights
Poses(cloud, h) ==
    [i \in 1..Len(cloud) |->
        [x |-> h[cloud[i]].x, y |-> h[cloud[i]].y, theta |-> h[cloud[i]].theta % TAU]]

\* the objects still referenced by the cloud
Live(cloud, h) == [id \in Range(cloud) |-> h[id]]

RECURSIVE SumW(_, _, _)
SumW(cloud, h, i) ==
    IF i > Len(cloud) THEN Q(0) ELSE QAdd(h[cloud[i]].w, SumW(cloud, h, i + 1))

RECURSIVE DivW(_, _, _, _)
DivW(cloud, h, i, sum) ==
    IF i > Len(cloud) THEN h
    ELSE DivW(cloud, [h EXCEPT ![cloud[i]].w = QDiv(@, sum)], i + 1, sum)

\* normalize_particles with a sum that misses the first particle
normalize_particles_short_sum(cloud, h) == DivW(cloud, h, 1, SumW(cloud, h, 2))

\* ParticleFilter.normalize_particles: sum the weights over the list, then
\* divide each list entry's weight by the sum, in place
normalize_particles(cloud, h) == DivW(cloud, h, 1, SumW(cloud, h, 1))

\* an angle as a quaternion and back: its representative in (-50, 50]
QWrap(q) ==
    IF IsNaN(q) THEN NaN
    ELSE LET half == 50 * q.d
             r == ((q.n + half) % (2 * half)) - half
         IN QNorm(IF r = -half THEN half ELSE r, q.d)

RECURSIVE WMean(_, _, _, _)
WMean(cloud, h, i, f) ==
    IF i > Len(cloud) THEN Q(0)
    ELSE QAdd(QMul(h[cloud[i]].w, Q(h[cloud[i]][f])), WMean(cloud, h, i + 1, f))

\* the weighted mean pose of a normalised cloud, as a Pose (the heading as a
\* quaternion)
MeanPose(cloud, hn) ==
    [heap |-> hn,
     pose |-> [x |-> WMean(cloud, hn, 1, "x"),
               y |-> WMean(cloud, hn, 1, "y"),
               theta |-> QWrap(WMean(cloud, hn, 1, "theta"))]]

\* ParticleFilter.update_robot_pose: normalise, then the weighted mean of x, y
\* and theta
update_robot_pose(cloud, h) == MeanPose(cloud, normalize_particles(cloud, h))

RECURSIVE OdomLoop(_, _, _, _, _, _, _)
OdomLoop(cloud, h, i, r1, delta_distance, r2, noise) ==
    IF i > Len(cloud) THEN h
    ELSE LET p == h[cloud[i]]
             delta_random_radius == noise[i][1]
             delta_random_mean_angle == noise[i][2]
             delta_random_orient_angle == noise[i][3]
             delta_random_x == RDiv(delta_random_radius * Cos(delta_random_mean_angle), 100)
             delta_random_y == RDiv(delta_random_radius * Sin(delta_random_mean_angle), 100)
             theta1 == p.theta + r1
             moved == [p EXCEPT
                         !.theta = theta1 + r2 + delta_random_orient_angle,
                         !.x = p.x + RDiv(Cos(theta1) * delta_distance, 100) + delta_random_x,
                         !.y = p.y + RDiv(Sin(theta1) * delta_distance, 100) + delta_random_y]
         IN OdomLoop(cloud, [h EXCEPT ![cloud[i]] = moved], i + 1,
                     r1, delta_distance, r2, noise)

\* update_particles_with_odom taking atan2 of the displacement as r1, without
\* subtracting the old heading
update_particles_with_odom_absolute_r1(cloud, h, old_odom, new_odom, noise) ==
    IF old_odom = <<>> THEN [heap |-> h, odom |-> new_odom]
    ELSE LET delta == <<new_odom[1] - old_odom[1], new_odom[2] - old_odom[2],
                        new_odom[3] - old_odom[3]>>
             r1 == Atan2(delta[2], delta[1])
             delta_distance == Norm2(delta[1], delta[2])
             r2 == delta[3] - r1
         IN [heap |-> OdomLoop(cloud, h, 1, r1, delta_distance, r2, noise),
             odom |-> new_odom]

\* ParticleFilter.update_particles_with_odom: [heap, odom] after the call.
\* noise[i] = <<radial noise, its direction, orientation noise>> for list entry i.
update_particles_with_odom(cloud, h, old_odom, new_odom, noise) ==
    IF old_odom = <<>> THEN [heap |-> h, odom |-> new_odom]
    ELSE LET delta == <<new_odom[1] - old_odom[1], new_odom[2] - old_odom[2],
                        new_odom[3] - old_odom[3]>>
             r1 == Atan2(delta[2], delta[1]) - old_odom[3]
             delta_distance == Norm2(delta[1], delta[2])
             r2 == delta[3] - r1
         IN [heap |-> OdomLoop(cloud, h, 1, r1, delta_distance, r2, noise),
             odom |-> new_odom]

\* filter_laser with the interval closed at both ends
filter_laser_inclusive(ranges) ==
    {i \in 0..(Len(ranges) - 1) : ranges[i + 1] >= 0 /\ ranges[i + 1] <= LaserMax}

\* ParticleFilter.filter_laser: the indices (0-based) of the valid readings
filter_laser(ranges) == {i \in 0..(Len(ranges) - 1) : ranges[i + 1] > 0 /\ ranges[i + 1] < LaserMax}

\* valid_ranges.keys(): for the scans of the model (fewer than 128 readings)
\* CPython 2 lists the integer keys of the dict in increasing order
RECURSIVE SortedKeys(_)
SortedKeys(S) ==
    IF S = {} THEN <<>>
    ELSE LET m == CHOOSE a \in S : \A b \in S : a <= b
         IN <<m>> \o SortedKeys(S \ {m})

\* the beams update_particles_with_laser reads: keys[int(i * valid_len / 25)]
SelectedBeams(ranges) ==
    LET keys == SortedKeys(filter_laser(ranges))
        valid_len == Len(keys)
    IN IF valid_len >= num_pt_check
       THEN [i \in 1..num_pt_check |-> keys[((i - 1) * valid_len) \div num_pt_check + 1]]
       ELSE <<>>

\* (index + .25 * TAU) % TAU: the index is added as radians (15.91549 units each)
BeamAngle(index) == (RDiv(index * 1591549, 100000) + 25) % TAU

\* where the beam of that index ends, seen from particle p: <<x, y>>
BeamEndpoint(p, ranges, index) ==
    <<RDiv(Cos(BeamAngle(index) + p.theta) * ranges[index + 1], 100) + p.x,
      RDiv(Sin(BeamAngle(index) + p.theta) * ranges[index + 1], 100) + p.y>>

\* 1 + norm.pdf of the distance from the beam's end to the nearest obstacle
BeamFactor(field, end) ==
    QAdd(Q(1), NormPdf(get_closest_obstacle_distance(field, end[1], end[2])))

\* density_product over the selected beams, from beam i on
RECURSIVE DensityProduct(_, _, _, _, _)
DensityProduct(field, p, ranges, beams, i) ==
    IF i > Len(beams) THEN Q(1)
    ELSE QMul(BeamFactor(field, BeamEndpoint(p, ranges, beams[i])),
              DensityProduct(field, p, ranges, beams, i + 1))

RECURSIVE LaserLoop(_, _, _, _, _, _)
LaserLoop(field, cloud, h, i, ranges, beams) ==
    IF i > Len(cloud) THEN h
    ELSE LaserLoop(field, cloud,
                   [h EXCEPT ![cloud[i]].w = DensityProduct(field, h[cloud[i]], ranges, beams, 1)],
                   i + 1, ranges, beams)

\* ParticleFilter.update_particles_with_laser: the heap after the call
update_particles_with_laser(field, cloud, h, ranges) ==
    IF Cardinality(filter_laser(ranges)) >= num_pt_check
    THEN LaserLoop(field, cloud, h, 1, ranges, SelectedBeams(ranges))
    ELSE h

Weights(cloud, h) == [i \in 1..Len(cloud) |-> h[cloud[i]].w]

\* the weights handed to np.random.choice by resample_particles
Probabilities(cloud, h) == Weights(cloud, normalize_particles(cloud, h))

\* np.random.choice(self.particle_cloud, p = probabilities), called n_particles
\* times: the indices it can return.  With NaN among the probabilities the
\* result depends on the numpy release: 1.16 raises ValueError("probabilities
\* contain NaN"), earlier releases search a NaN cumulative sum and return
\* the first entry every time.
RandomChoice(p) ==
    IF \E i \in DOMAIN p : IsNaN(p[i])
    THEN {[raised |-> TRUE, draws |-> <<>>],
          [raised |-> FALSE, draws |-> [i \in 1..n_particles |-> 1]]}
    ELSE {[raised |-> FALSE, draws |-> d] :
             d \in [1..n_particles -> {k \in DOMAIN p : QPos(p[k])}]}

\* the new generation without deepcopy: the drawn objects themselves
DrawnShared(cloud, hn, draws, new_particle_cloud) ==
    [cloud |-> [i \in 1..n_particles |-> cloud[draws[i]]], heap |-> hn, raised |-> FALSE]

\* the new generation: a deepcopy of each drawn particle, in a new object
DrawnCopies(cloud, hn, draws, new_particle_cloud) ==
    [cloud |-> new_particle_cloud,
     heap |-> [id \in Range(new_particle_cloud) |->
                  hn[cloud[draws[CHOOSE i \in 1..n_particles : new_particle_cloud[i] = id]]]],
     raised |-> FALSE]

Resampled(cloud, hn, outcome) ==
    IF outcome.raised
    THEN [cloud |-> cloud, heap |-> hn, raised |-> TRUE]
    ELSE DrawnCopies(cloud, hn, outcome.draws, NewIds(Range(cloud), n_particles))

\* ParticleFilter.resample_particles with that outcome of the draws: normalise,
\* deepcopy each drawn particle, replace the list
resample_particles(cloud, h, outcome) ==
    Resampled(cloud, normalize_particles(cloud, h), outcome)

\* the heading every particle is created with: 0.34 * TAU
InitTheta == 34

\* the n_particles Particle objects initialize_particle_cloud constructs
NewParticles(map_info, ids, samples) ==
    [id \in Range(ids) |->
        LET r == samples[CHOOSE i \in 1..n_particles : ids[i] = id]
            x == RDiv(r[1] * map_info.width * map_info.resolution * 5, 10000)
            y == RDiv(r[3] * map_info.height * map_info.resolution * 10, 10000)
        IN Particle(IF r[2] > 50 THEN -x ELSE x, IF r[4] > 50 THEN -y ELSE y, InitTheta)]

InitializedCloud(ids, est) == [cloud |-> ids, heap |-> est.heap, pose |-> est.pose]

InitializeWith(map_info, ids, samples) ==
    InitializedCloud(ids,
        update_robot_pose(ids, normalize_particles(ids, NewParticles(map_info, ids, samples))))

\* ParticleFilter.initialize_particle_cloud.  samples[i] = <<rx, sx, ry, sy>>:
\* the four random_sample() values of particle i, in hundredths.
initialize_particle_cloud(field, old_cloud, samples) ==
    InitializeWith(field.map, NewIds(Range(old_cloud), n_particles), samples)

\* the map -> odom transform with rotation rot (r to the nearest unit)
MapToOdom(pose, odom, rot, r) ==
    [translation |->
        [set |-> TRUE,
         x |-> IF IsNaN(rot) THEN NaN
               ELSE QAdd(pose.x, QNorm(-(Cos(r) * odom[1] - Sin(r) * odom[2]), 100)),
         y |-> IF IsNaN(rot) THEN NaN
               ELSE QAdd(pose.y, QNorm(-(Sin(r) * odom[1] + Cos(r) * odom[2]), 100))],
     rotation |-> [set |-> TRUE, theta |-> rot]]

Rounded(q) == IF IsNaN(q) THEN 0 ELSE RDiv(q.n, q.d)

\* ParticleFilter.fix_map_to_odom_transform: the map -> odom transform that
\* carries the odometry pose of the robot onto robot_pose
fix_map_to_odom_transform(pose, odom) ==
    MapToOdom(pose, odom, QWrap(QAdd(pose.theta, Q(-odom[3]))),
              Rounded(QWrap(QAdd(pose.theta, Q(-odom[3])))))

\* the elif of scan_received: have we moved far enough to do an update
MovedFarEnough(new_odom_xy_theta, old) ==
    \/ Abs(new_odom_xy_theta[1] - old[1]) > d_thresh
    \/ Abs(new_odom_xy_theta[2] - old[2]) > d_thresh
    \/ Abs(new_odom_xy_theta[3] - old[3]) > a_thresh

-----------------------------------------------------------------------------
(* The inputs the model draws *)

\* filter cycles a behaviour may hold
MaxCycles == 1
\* readings per scan
ScanLen == 32

\* LaserScan.ranges: "sparse" has 24 valid readings (then 0.0, 3.5 and inf),
\* "near" has dropouts but 25 or more valid readings, all short,
\* "far" has readings of 3 m, which end outside the map
Scans == {"sparse", "near", "far"}
Ranges(scan) ==
    [i \in 1..ScanLen |->
        IF scan = "sparse"
        THEN (IF i <= 24 THEN 60 ELSE IF i = 25 THEN 0 ELSE IF i = 26 THEN 350 ELSE 9999)
        ELSE IF scan = "near"
        THEN (IF i % 7 = 0 THEN 0 ELSE IF i % 5 = 0 THEN 120 ELSE 60)
        ELSE (IF i % 4 = 0 THEN 300 ELSE 60)]

\* np.random.normal / random_sample draws of the motion update, per particle:
\* <<radial noise (cm), its direction in [0, TAU/2), orientation noise>>
NoiseDraws == {<<0, 0, 0>>, <<2, 25, 1>>}

\* random_sample() draws of initialize_particle_cloud, per particle, in hundredths
InitSamples == {<<50, s[1], 50, s[2]>> : s \in {25, 75} \X {25, 75}}

\* pose hints <<x, y, theta>> sent on "initialpose"
Hints == {<<0, 0, 0>>, <<100, 50, 25>>}

-----------------------------------------------------------------------------
(* The node *)

NoTransform == [translation |-> [set |-> FALSE, x |-> Q(0), y |-> Q(0)],
                rotation |-> [set |-> FALSE, theta |-> Q(0)]]

NoHandler ==
    [kind |-> "none", tf_ok |-> FALSE, odom |-> <<>>, scan |-> "", hint |-> <<>>,
     had_cloud |-> FALSE, baseline |-> <<>>, ran_cycle |-> FALSE, raised |-> "",
     steps |-> <<>>, after_odom |-> <<>>, after_laser |-> <<>>,
     normalized |-> <<>>, draws |-> <<>>]

NoProbe == [op |-> "none", args |-> <<>>, result |-> <<>>]

\* no call of fix_map_to_odom_transform under way, none made
NoFixCall == [stage |-> "none", computed |-> <<>>, produced |-> {}, calls |-> 0]

\* the main loop between two calls of broadcast_last_transform
NoBroadcast == [pc |-> "sleep", translation |-> <<>>, last |-> "none", sent |-> <<>>]

Publication(pub, cloud, h) == [pub |-> pub, poses |-> Poses(cloud, h)]

\* the state after ParticleFilter.__init__
Init ==
    /\ initialized = TRUE
    /\ occupancy_field = OccupancyField(TheMap)
    /\ particle_cloud = <<>>
    /\ heap = <<>>
    /\ current_odom_xy_theta = <<>>
    /\ robot_pose = [x |-> Q(0), y |-> Q(0), theta |-> Q(0)]
    /\ translation = NoTransform.translation
    /\ rotation = NoTransform.rotation
    /\ handler = NoHandler
    /\ published = <<>>
    /\ cycles = 0
    /\ probe = NoProbe
    /\ fix_call = NoFixCall
    /\ main_loop = NoBroadcast

\* scan_received returning early: not initialized, or a transform is missing
ScanReturnsEarly ==
    /\ handler' = [NoHandler EXCEPT !.kind = "scan", !.had_cloud = particle_cloud # <<>>,
                                    !.baseline = current_odom_xy_theta]
    /\ published' = <<>>
    /\ UNCHANGED <<initialized, occupancy_field, particle_cloud, heap,
                   current_odom_xy_theta, robot_pose, translation, rotation, cycles>>

\* initialize_particle_cloud on a node without the attribute occupancy_field:
\* self.particle_cloud = [] and then AttributeError
ScanFindsNoField(h0) ==
    /\ particle_cloud' = <<>>
    /\ heap' = <<>>
    /\ handler' = [h0 EXCEPT !.raised = "AttributeError", !.steps = <<"initialize">>]
    /\ published' = <<>>
    /\ UNCHANGED <<initialized, occupancy_field, current_odom_xy_theta, robot_pose,
                   translation, rotation, cycles>>

ScanInitialized(h0, odom, init, fix) ==
    /\ particle_cloud' = init.cloud
    /\ heap' = init.heap
    /\ robot_pose' = init.pose
    /\ current_odom_xy_theta' = odom
    /\ translation' = fix.translation
    /\ rotation' = fix.rotation
    /\ published' = <<Publication("finalcloud", init.cloud, init.heap)>>
    /\ handler' = [h0 EXCEPT !.steps = <<"initialize", "normalize", "estimate",
                                         "fix_transform">>]
    /\ UNCHANGED <<initialized, occupancy_field, cycles>>

ScanInitializing(h0, odom, init) ==
    ScanInitialized(h0, odom, init, fix_map_to_odom_transform(init.pose, odom))

\* scan_received with no particles yet: initialise the cloud, cache the
\* odometry, fix the transform, publish
ScanInitializes(h0, odom) ==
    IF occupancy_field = <<>> THEN ScanFindsNoField(h0)
    ELSE \E samples \in [1..n_particles -> InitSamples] :
            ScanInitializing(h0, odom,
                initialize_particle_cloud(occupancy_field, particle_cloud, samples))

\* the cycle ends: ValueError out of resample_particles, or the pose estimate,
\* the transform and the final cloud
CycleEnds(h1, odom, pubs, resampled, outcome, est, fix) ==
    /\ cycles' = cycles + 1
    /\ current_odom_xy_theta' = odom
    /\ particle_cloud' = resampled.cloud
    /\ UNCHANGED <<initialized, occupancy_field>>
    /\ IF resampled.raised
       THEN /\ heap' = Live(resampled.cloud, resampled.heap)
            /\ published' = pubs
            /\ handler' = [h1 EXCEPT !.raised = "ValueError",
                                     !.steps = <<"motion", "sensor", "normalize">>]
            /\ UNCHANGED <<robot_pose, translation, rotation>>
       ELSE /\ heap' = est.heap
            /\ robot_pose' = est.pose
            /\ translation' = fix.translation
            /\ rotation' = fix.rotation
            /\ published' = Append(pubs, Publication("finalcloud", resampled.cloud, est.heap))
            /\ handler' = [h1 EXCEPT !.draws = outcome.draws,
                                     !.steps = <<"motion", "sensor", "normalize", "resample",
                                                 "normalize", "estimate", "fix_transform">>]

CycleEstimates(h1, odom, pubs, resampled, outcome, est) ==
    CycleEnds(h1, odom, pubs, resampled, outcome, est,
              fix_map_to_odom_transform(est.pose, odom))

CycleResamples(h1, odom, pubs, resampled, outcome) ==
    CycleEstimates(h1, odom, pubs, resampled, outcome,
                   update_robot_pose(resampled.cloud, resampled.heap))

\* after update_particles_with_laser: publish, resample
CycleWeighted(h0, odom, scan, raw, moved, weighted) ==
    \E outcome \in RandomChoice(Probabilities(particle_cloud, weighted)) :
        CycleResamples(
            [h0 EXCEPT !.scan = scan, !.ran_cycle = TRUE,
                       !.after_odom = Values(particle_cloud, moved.heap),
                       !.after_laser = Values(particle_cloud, weighted),
                       !.normalized = Values(particle_cloud,
                                             normalize_particles(particle_cloud, weighted))],
            moved.odom,
            <<raw, Publication("odomcloud", particle_cloud, moved.heap),
              Publication("lasercloud", particle_cloud, weighted)>>,
            resample_particles(particle_cloud, weighted, outcome), outcome)

\* after update_particles_with_odom: publish, weigh
CycleMoved(h0, odom, scan, raw, moved) ==
    CycleWeighted(h0, odom, scan, raw, moved,
        update_particles_with_laser(occupancy_field, particle_cloud, moved.heap, Ranges(scan)))

\* scan_received past the movement gate: one filter cycle
ScanRunsCycle(h0, odom, scan) ==
    \E noise \in [1..Len(particle_cloud) -> NoiseDraws] :
        CycleMoved(h0, odom, scan, Publication("rawcloud", particle_cloud, heap),
            update_particles_with_odom(particle_cloud, heap, current_odom_xy_theta,
                                       odom, noise))

\* scan_received below the gate, caching the odometry of every scan
ScanIdlesCachingOdom(h0) ==
    /\ published' = <<Publication("finalcloud", particle_cloud, heap)>>
    /\ handler' = h0
    /\ current_odom_xy_theta' = h0.odom
    /\ UNCHANGED <<initialized, occupancy_field, particle_cloud, heap,
                   robot_pose, translation, rotation, cycles>>

\* scan_received below the movement gate: only the final cloud is published
ScanIdles(h0) ==
    /\ published' = <<Publication("finalcloud", particle_cloud, heap)>>
    /\ handler' = h0
    /\ UNCHANGED <<initialized, occupancy_field, particle_cloud, heap,
                   current_odom_xy_theta, robot_pose, translation, rotation, cycles>>

\* scan_received without the check of self.initialized
scan_received_unguarded(tf_ok, odom, scan) ==
    LET h0 == [NoHandler EXCEPT !.kind = "scan", !.tf_ok = TRUE, !.odom = odom,
                                !.had_cloud = particle_cloud # <<>>,
                                !.baseline = current_odom_xy_theta]
    IN IF ~tf_ok THEN ScanReturnsEarly
       ELSE IF particle_cloud = <<>> THEN ScanInitializes(h0, odom)
       ELSE IF MovedFarEnough(odom, current_odom_xy_theta)
            THEN ScanRunsCycle(h0, odom, scan)
       ELSE ScanIdles(h0)

\* ParticleFilter.scan_received(msg): tf_ok says whether both canTransform
\* calls succeed, odom is the odometry pose tf returns, scan the ranges
scan_received(tf_ok, odom, scan) ==
    LET h0 == [NoHandler EXCEPT !.kind = "scan", !.tf_ok = TRUE, !.odom = odom,
                                !.had_cloud = particle_cloud # <<>>,
                                !.baseline = current_odom_xy_theta]
    IN IF ~initialized \/ ~tf_ok THEN ScanReturnsEarly
       ELSE IF particle_cloud = <<>> THEN ScanInitializes(h0, odom)
       ELSE IF MovedFarEnough(odom, current_odom_xy_theta)
            THEN ScanRunsCycle(h0, odom, scan)
       ELSE ScanIdles(h0)

\* ParticleFilter.update_initial_pose(msg): the call
\* self.initialize_particle_cloud(xy_theta) passes an argument the method does
\* not take, so Python raises TypeError before any statement of it runs
update_initial_pose(hint) ==
    /\ handler' = [NoHandler EXCEPT !.kind = "initialpose", !.hint = hint,
                                    !.had_cloud = particle_cloud # <<>>,
                                    !.baseline = current_odom_xy_theta,
                                    !.raised = "TypeError"]
    /\ published' = <<>>
    /\ UNCHANGED <<initialized, occupancy_field, particle_cloud, heap,
                   current_odom_xy_theta, robot_pose, translation, rotation, cycles>>

\* the messages that reach scan_received; odom and scan are drawn only where
\* the handler reads them
ScanReceived ==
    /\ \E tf_ok \in BOOLEAN :
         \E odom \in IF tf_ok THEN OdomSamples ELSE {<<0, 0, 0>>} :
           \E scan \in IF tf_ok /\ particle_cloud # <<>>
                            /\ MovedFarEnough(odom, current_odom_xy_theta)
                       THEN Scans ELSE {"sparse"} :
              \* a scan that would start a cycle arrives only while cycles remain
              /\ (tf_ok /\ particle_cloud # <<>>
                    /\ MovedFarEnough(odom, current_odom_xy_theta)) => cycles < MaxCycles
              /\ scan_received(tf_ok, odom, scan)
    /\ UNCHANGED <<probe, thread_vars>>

UpdateInitialPose ==
    /\ \E hint \in Hints : update_initial_pose(hint)
    /\ UNCHANGED <<probe, thread_vars>>

Next == ScanReceived \/ UpdateInitialPose

Spec == Init /\ [][Next]_vars

-----------------------------------------------------------------------------
(* The constructor, with the callbacks that arrive while it runs *)

\* ParticleFilter.__init__ after both subscribers are registered and
\* particle_cloud and current_odom_xy_theta are assigned: initialized is
\* False and there is no occupancy_field yet
InitStartup ==
    /\ initialized = FALSE
    /\ occupancy_field = <<>>
    /\ Init!3 /\ Init!4 /\ Init!5 /\ Init!6 /\ Init!7 /\ Init!8
    /\ Init!9 /\ Init!10 /\ Init!11 /\ Init!12 /\ Init!13 /\ Init!14

\* self.occupancy_field = OccupancyField(get_static_map().map)
BuildField ==
    /\ ~initialized /\ occupancy_field = <<>>
    /\ occupancy_field' = OccupancyField(TheMap)
    /\ handler' = [NoHandler EXCEPT !.kind = "__init__"]
    /\ published' = <<>>
    /\ UNCHANGED <<initialized, particle_cloud, heap, current_odom_xy_theta,
                   robot_pose, translation, rotation, cycles, probe, thread_vars>>

\* self.robot_pose = Pose(); self.initialized = True
FinishInit ==
    /\ ~initialized /\ occupancy_field # <<>>
    /\ robot_pose' = [x |-> Q(0), y |-> Q(0), theta |-> Q(0)]
    /\ initialized' = TRUE
    /\ handler' = [NoHandler EXCEPT !.kind = "__init__"]
    /\ published' = <<>>
    /\ UNCHANGED <<occupancy_field, particle_cloud, heap, current_odom_xy_theta,
                   translation, rotation, cycles, probe, thread_vars>>

NextStartup == BuildField \/ FinishInit \/ ScanReceived \/ UpdateInitialPose

SpecStartup == InitStartup /\ [][NextStartup]_vars

-----------------------------------------------------------------------------
(* The main loop and the callback thread *)

\* calls of fix_map_to_odom_transform a behaviour may hold
MaxFixes == 2

\* robot poses fix_map_to_odom_transform is called with
FixPoses == {[x |-> Q(10), y |-> Q(15), theta |-> Q(InitTheta)],
             [x |-> Q(-10), y |-> Q(15), theta |-> Q(0)]}

\* fix_map_to_odom_transform up to the call of convert_pose_inverse_transform
\* on its last line: the pair (translation, rotation) is computed
FixComputes ==
    /\ fix_call.stage = "none" /\ fix_call.calls < MaxFixes
    /\ \E pose \in FixPoses, odom \in OdomSamples :
          fix_call' = [stage |-> "computed",
                       computed |-> fix_map_to_odom_transform(pose, odom),
                       produced |-> fix_call.produced
                                      \cup {fix_map_to_odom_transform(pose, odom)},
                       calls |-> fix_call.calls + 1]
    /\ UNCHANGED <<filter_vars, probe, main_loop>>

\* (self.translation, self.rotation) = ...: the first store
FixStoresTranslation ==
    /\ fix_call.stage = "computed"
    /\ translation' = fix_call.computed.translation
    /\ fix_call' = [fix_call EXCEPT !.stage = "translation"]
    /\ UNCHANGED <<initialized, occupancy_field, particle_cloud, heap,
                   current_odom_xy_theta, robot_pose, rotation, handler, published,
                   cycles, probe, main_loop>>

\* (self.translation, self.rotation) = ...: the second store
FixStoresRotation ==
    /\ fix_call.stage = "translation"
    /\ rotation' = fix_call.computed.rotation
    /\ fix_call' = [fix_call EXCEPT !.stage = "none", !.computed = <<>>]
    /\ UNCHANGED <<initialized, occupancy_field, particle_cloud, heap,
                   current_odom_xy_theta, robot_pose, translation, handler, published,
                   cycles, probe, main_loop>>

\* broadcast_last_transform: the hasattr test (an attribute, once set, stays)
LoopChecks ==
    /\ main_loop.pc = "sleep"
    /\ main_loop' = IF translation.set /\ rotation.set
                    THEN [main_loop EXCEPT !.pc = "checked"]
                    ELSE [main_loop EXCEPT !.last = "returned"]
    /\ UNCHANGED <<filter_vars, probe, fix_call>>

\* the arguments of sendTransform: self.translation is read
LoopReadsTranslation ==
    /\ main_loop.pc = "checked"
    /\ main_loop' = [main_loop EXCEPT !.pc = "read", !.translation = translation]
    /\ UNCHANGED <<filter_vars, probe, fix_call>>

\* self.rotation is read and the transform is sent
LoopSends ==
    /\ main_loop.pc = "read"
    /\ main_loop' = [pc |-> "sleep", translation |-> <<>>, last |-> "sent",
                     sent |-> [translation |-> main_loop.translation,
                               rotation |-> rotation]]
    /\ UNCHANGED <<filter_vars, probe, fix_call>>

NextBroadcast ==
    \/ FixComputes \/ FixStoresTranslation \/ FixStoresRotation
    \/ LoopChecks \/ LoopReadsTranslation \/ LoopSends

SpecBroadcast == Init /\ [][NextBroadcast]_vars

-----------------------------------------------------------------------------
(* Pure functions, applied to inputs drawn from bounded sets *)

\* world coordinates put to get_closest_obstacle_distance: a grid of points
\* every 25 cm from 1.5 m below the origin to 1.5 m past the far edge
ProbeXs == {TheMap.origin_x - 150 + 25 * k : k \in 0..28}
ProbeYs == {TheMap.origin_y - 150 + 25 * k : k \in 0..24}

\* particle sets put to normalize_particles: weights as the filter holds them
\* (1.0 at construction, products of 1 + pdf, fractions after a
\* normalisation), and the weight 0.0
ProbeWeights == {Q(0), Q(1), Q(9), Q(81), QNorm(1, 2), QNorm(9, 10)}
ProbeParticles == {[x |-> 10, y |-> -15, theta |-> InitTheta, w |-> w] : w \in ProbeWeights}

\* cells of the largest grid an OccupancyField is constructed on
MaxCells == 6

\* the grids put to OccupancyField.__init__: every width x height of at most
\* MaxCells cells, resolution 0.05 m, every cell unknown (-1), free (0) or
\* occupied (100), at least one cell occupied (NearestNeighbors.fit raises on
\* an empty set of occupied cells)
GridSizes == {wh \in (1..MaxCells) \X (1..MaxCells) : wh[1] * wh[2] <= MaxCells}
Grids ==
    UNION {
        {[width |-> wh[1], height |-> wh[2], resolution |-> 5,
          origin_x |-> 0, origin_y |-> 0, data |-> d] :
            d \in {e \in [1..(wh[1] * wh[2]) -> {-1, 0, 100}] :
                      \E k \in 1..(wh[1] * wh[2]) : e[k] > 0}} :
        wh \in GridSizes}

\* a particle set by value, as a cloud of objects 1..n and back
AsHeap(values) == [id \in 1..Len(values) |-> values[id]]
AsCloud(values) == [i \in 1..Len(values) |-> i]
Normalized(values) ==
    Values(AsCloud(values), normalize_particles(AsCloud(values), AsHeap(values)))

Query ==
    /\ \E x \in ProbeXs, y \in ProbeYs :
           probe' = [op |-> "get_closest_obstacle_distance", args |-> <<x, y>>,
                     result |-> get_closest_obstacle_distance(occupancy_field, x, y)]
    /\ UNCHANGED <<filter_vars, thread_vars>>

Normalize ==
    /\ \E values \in [1..n_particles -> ProbeParticles] :
           probe' = [op |-> "normalize_particles", args |-> values,
                     result |-> Normalized(values)]
    /\ UNCHANGED <<filter_vars, thread_vars>>

\* normalize_particles applied to its own result
NormalizeAgain ==
    /\ probe.op = "normalize_particles"
    /\ probe' = [op |-> "normalize_particles twice", args |-> probe.result,
                 result |-> Normalized(probe.result)]
    /\ UNCHANGED <<filter_vars, thread_vars>>

NextProbe == Query \/ Normalize \/ NormalizeAgain

SpecProbe == Init /\ [][NextProbe]_vars

\* a node about to construct its OccupancyField on one of the grids
InitField ==
    /\ Init!1 /\ Init!2 /\ Init!3 /\ Init!4 /\ Init!5 /\ Init!6
    /\ Init!7 /\ Init!8 /\ Init!9 /\ Init!10 /\ Init!11 /\ Init!13 /\ Init!14
    /\ \E map \in Grids : probe = [op |-> "map", args |-> map, result |-> <<>>]

\* OccupancyField(map)
Construct ==
    /\ probe.op = "map"
    /\ probe' = [op |-> "OccupancyField", args |-> probe.args,
                 result |-> OccupancyField(probe.args)]
    /\ UNCHANGED <<filter_vars, thread_vars>>

NextField == Construct

SpecField == InitField /\ [][NextField]_vars

\* particles put to update_particles_with_odom
MotionParticles ==
    {[x |-> 0, y |-> 0, theta |-> 0, w |-> Q(1)],
     [x |-> 10, y |-> -15, theta |-> InitTheta, w |-> QNorm(1, 2)],
     [x |-> -10, y |-> 15, theta |-> -20, w |-> Q(9)]}

\* a node holding current_odom_xy_theta = old and a particle list, about to
\* receive the odometry new, with the noise draws of the call
InitMotion ==
    /\ Init!1 /\ Init!2 /\ Init!3 /\ Init!4 /\ Init!5 /\ Init!6
    /\ Init!7 /\ Init!8 /\ Init!9 /\ Init!10 /\ Init!11 /\ Init!13 /\ Init!14
    /\ \E values \in [1..n_particles -> MotionParticles], old \in OdomSamples,
          new \in OdomSamples, noise \in [1..n_particles -> NoiseDraws] :
           probe = [op |-> "odom", args |-> <<values, old, new, noise>>, result |-> <<>>]

\* the particle list after update_particles_with_odom
Moved(values, old, new, noise) ==
    Values(AsCloud(values),
           update_particles_with_odom(AsCloud(values), AsHeap(values), old, new, noise).heap)

Predict ==
    /\ probe.op = "odom"
    /\ probe' = [op |-> "update_particles_with_odom", args |-> probe.args,
                 result |-> Moved(probe.args[1], probe.args[2], probe.args[3], probe.args[4])]
    /\ UNCHANGED <<filter_vars, thread_vars>>

NextMotion == Predict

SpecMotion == InitMotion /\ [][NextMotion]_vars

\* particles put to update_robot_pose: headings on both sides of +/-pi and
\* away from it
PoseParticles ==
    {[x |-> xy[1], y |-> xy[2], theta |-> th, w |-> w] :
        xy \in {<<10, 15>>, <<-10, -15>>}, th \in {49, -49, InitTheta, 45},
        w \in {Q(1), Q(9), QNorm(1, 2)}}

\* a node holding a particle list, about to estimate the pose
InitPose ==
    /\ Init!1 /\ Init!2 /\ Init!3 /\ Init!4 /\ Init!5 /\ Init!6
    /\ Init!7 /\ Init!8 /\ Init!9 /\ Init!10 /\ Init!11 /\ Init!13 /\ Init!14
    /\ \E values \in [1..n_particles -> PoseParticles] :
           probe = [op |-> "particles", args |-> values, result |-> <<>>]

\* self.robot_pose after update_robot_pose
Estimate ==
    /\ probe.op = "particles"
    /\ probe' = [op |-> "update_robot_pose", args |-> probe.args,
                 result |-> update_robot_pose(AsCloud(probe.args), AsHeap(probe.args)).pose]
    /\ UNCHANGED <<filter_vars, thread_vars>>

NextPose == Estimate

SpecPose == InitPose /\ [][NextPose]_vars

-----------------------------------------------------------------------------
(* The claims *)

\* the last callback was a scan that got its transforms and found particles
ScanAfterInit == handler.kind = "scan" /\ handler.tf_ok /\ handler.had_cloud

\* the last callback ran a filter cycle to its end
CompletedCycle == handler.ran_cycle /\ handler.raised = ""

\* the shortest rotation between two headings
ShortestRotation(a, b) == LET d == (a - b) % TAU IN IF d > 50 THEN TAU - d ELSE d

\* the readings of a scan inside (0, max_range)
ValidReadings(ranges) == {i \in 0..(Len(ranges) - 1) : 0 < ranges[i + 1] /\ ranges[i + 1] < 350}

RECURSIVE SumOfWeights(_)
SumOfWeights(values) ==
    IF values = <<>> THEN Q(0) ELSE QAdd(Head(values).w, SumOfWeights(Tail(values)))

PoseOf(p) == <<p.x, p.y, p.theta>>

\* names occur in steps in that order (other steps may lie between)
RECURSIVE InOrder(_, _)
InOrder(names, steps) ==
    IF names = <<>> THEN TRUE
    ELSE IF steps = <<>> THEN FALSE
    ELSE IF Head(steps) = Head(names) THEN InOrder(Tail(names), Tail(steps))
    ELSE InOrder(names, Tail(steps))

\* C1: a scan after initialisation runs a cycle exactly when the Euclidean
\* displacement from the baseline odometry exceeds d_thresh or the shortest
\* rotation exceeds a_thresh.
C1_GateIsEuclideanAndWrapped ==
    ScanAfterInit =>
        LET dx == handler.odom[1] - handler.baseline[1]
            dy == handler.odom[2] - handler.baseline[2]
        IN handler.ran_cycle <=>
              \/ dx * dx + dy * dy > d_thresh * d_thresh
              \/ ShortestRotation(handler.odom[3], handler.baseline[3]) > a_thresh

C3_GatePassedRunsOneFullCycle ==
    (ScanAfterInit /\ MovedFarEnough(handler.odom, handler.baseline)) =>
        /\ InOrder(<<"motion", "sensor", "normalize", "resample", "estimate">>, handler.steps)
        /\ Cardinality({i \in DOMAIN handler.steps : handler.steps[i] = "motion"}) = 1
        /\ current_odom_xy_theta = handler.odom

\* the cell the claim assigns to an in-bounds point
FloorDiv(n, d) == n \div d

\* C4: get_closest_obstacle_distance returns NaN for every point outside
\* [origin, origin + extent) in either axis, and for a point inside it the
\* distance stored for cell (floor((x - origin_x)/resolution),
\* floor((y - origin_y)/resolution)).
C4_QueryBounds ==
    probe.op = "get_closest_obstacle_distance" =>
        LET map == occupancy_field.map
            x == probe.args[1]
            y == probe.args[2]
            inside == /\ map.origin_x <= x /\ x < map.origin_x + map.width * map.resolution
                      /\ map.origin_y <= y /\ y < map.origin_y + map.height * map.resolution
            cell == FloorDiv(x - map.origin_x, map.resolution)
                      + FloorDiv(y - map.origin_y, map.resolution) * map.width
        IN IF inside THEN probe.result = Q(occupancy_field.closest_occupied[cell])
           ELSE IsNaN(probe.result)

\* some selected beam of the last cycle ends, for some particle, where the
\* distance query answers NaN
SomeBeamLeavesMap ==
    \E i \in DOMAIN handler.after_odom :
        \E b \in Range(SelectedBeams(Ranges(handler.scan))) :
            LET end == BeamEndpoint(handler.after_odom[i], Ranges(handler.scan), b)
            IN IsNaN(get_closest_obstacle_distance(occupancy_field, end[1], end[2]))

\* C5: a cycle with 25 or more valid beams, some of them ending outside the
\* map, is not interrupted: every particle leaves sensor weighting with a
\* positive weight that is not NaN, and the cycle ends with n_particles
\* particles whose weights are numbers.
C5_OutOfMapBeamsAreAbsorbed ==
    (/\ handler.ran_cycle
     /\ Cardinality(ValidReadings(Ranges(handler.scan))) >= 25
     /\ SomeBeamLeavesMap)
    => /\ handler.raised = ""
       /\ \A i \in DOMAIN handler.after_laser : QPos(handler.after_laser[i].w)
       /\ InOrder(<<"normalize", "resample", "estimate">>, handler.steps)
       /\ Len(particle_cloud) = n_particles
       /\ \A i \in DOMAIN particle_cloud : ~IsNaN(heap[particle_cloud[i]].w)

\* C6: a pose hint replaces the particle set by n_particles new particles
\* around the hint, and the handler raises nothing.
C6_PoseHintReinitializes ==
    handler.kind = "initialpose" =>
        /\ handler.raised = ""
        /\ Len(particle_cloud) = n_particles
        /\ InOrder(<<"initialize">>, handler.steps)

\* C7: a completed cycle publishes the particles after the motion update, after
\* sensor weighting, after resampling (on resamplecloud) and at its end, in
\* that order.
C7_FourCheckpointsPublished ==
    CompletedCycle =>
        InOrder(<<"odomcloud", "lasercloud", "resamplecloud", "finalcloud">>,
                [i \in DOMAIN published |-> published[i].pub])

\* C8: resampling a set of positive total weight yields n_particles particles,
\* each with the pose of a particle of the old generation whose normalised
\* weight is not zero, each a new object: none is an object of the old
\* generation and no two slots hold the same object.
C8_ResampleCopies ==
    [][(/\ cycles' = cycles + 1
        /\ handler'.raised = ""
        /\ QPos(SumOfWeights(handler'.after_laser)))
       => /\ Len(particle_cloud') = n_particles
          /\ Cardinality(Range(particle_cloud')) = n_particles
          /\ Range(particle_cloud') \cap Range(particle_cloud) = {}
          /\ \A i \in 1..n_particles :
                \E k \in DOMAIN handler'.normalized :
                    /\ QPos(handler'.normalized[k].w)
                    /\ PoseOf(heap'[particle_cloud'[i]]) = PoseOf(handler'.normalized[k])]_vars

\* C8's case: a completed resampling that drew one particle for every slot,
\* out of a generation whose particles differ
C8_Witness ==
    /\ CompletedCycle
    /\ QPos(SumOfWeights(handler.after_laser))
    /\ \A i \in DOMAIN handler.draws : handler.draws[i] = 1
    /\ PoseOf(handler.normalized[1]) # PoseOf(handler.normalized[2])
    /\ Cardinality(Range(particle_cloud)) = n_particles

\* C9: with fewer than 25 readings inside (0, max_range) the sensor update
\* leaves every weight and pose as the motion update left them; with 25 or
\* more, each weight becomes the product over exactly 25 beams, each a valid
\* reading, and the poses stay.
C9_SensorUpdateNeeds25Beams ==
    handler.ran_cycle =>
        LET ranges == Ranges(handler.scan)
            valid == ValidReadings(ranges)
            beams == SelectedBeams(ranges)
        IN /\ InOrder(<<"sensor", "normalize">>, handler.steps)
           /\ IF Cardinality(valid) < 25
              THEN handler.after_laser = handler.after_odom
              ELSE /\ Len(beams) = 25
                   /\ Cardinality(Range(beams)) = 25
                   /\ Range(beams) \subseteq valid
                   /\ \A i \in DOMAIN handler.after_odom :
                         /\ PoseOf(handler.after_laser[i]) = PoseOf(handler.after_odom[i])
                         /\ handler.after_laser[i].w =
                               DensityProduct(occupancy_field, handler.after_odom[i],
                                              ranges, beams, 1)

\* C9's case: a cycle on a scan with 24 valid readings, the particles keeping
\* the weights they came with
C9_Witness ==
    /\ handler.ran_cycle
    /\ Cardinality(ValidReadings(Ranges(handler.scan))) = 24
    /\ \A i \in DOMAIN handler.after_laser : handler.after_laser[i].w # Q(1)

\* C10: for weights that are not negative and have a positive sum,
\* normalize_particles gives w_i / sum(w), the results sum to 1, the ratio of
\* any two weights is kept, no pose changes, and a second application changes
\* nothing.
C10_NormalizeScalesToOne ==
    /\ (probe.op = "normalize_particles" /\ QPos(SumOfWeights(probe.args))) =>
          LET total == SumOfWeights(probe.args)
          IN /\ SumOfWeights(probe.result) = Q(1)
             /\ \A i \in DOMAIN probe.args :
                   /\ probe.result[i].w = QDiv(probe.args[i].w, total)
                   /\ PoseOf(probe.result[i]) = PoseOf(probe.args[i])
             /\ \A i, j \in DOMAIN probe.args :
                   QMul(probe.result[i].w, probe.args[j].w)
                      = QMul(probe.result[j].w, probe.args[i].w)
    /\ (probe.op = "normalize_particles twice" /\ QPos(SumOfWeights(probe.args))) =>
          probe.result = probe.args

\* C10's case: a second normalisation of particles of unequal weight, one of
\* them of weight zero
C10_Witness ==
    /\ probe.op = "normalize_particles twice"
    /\ \A i \in DOMAIN probe.args : PoseOf(probe.result[i]) = PoseOf(probe.args[i])
    /\ QPos(SumOfWeights(probe.args))
    /\ \E i, j \in DOMAIN probe.args :
          probe.args[i].w = Q(0) /\ QLess(probe.args[i].w, probe.args[j].w)

\* C11: after OccupancyField construction on a grid with an occupied cell, for
\* every cell (i, j) closest_occupied[i + j*width] is resolution times the
\* least Euclidean distance, in cells, from (i, j) to a cell of value > 0
\* (to the centimetre, rounded down); it is 0 exactly for the occupied cells.
C11_FieldIsNearestOccupiedDistance ==
    probe.op = "OccupancyField" =>
        LET map == probe.args
            W == map.width
            H == map.height
            stored == probe.result.closest_occupied
            Occ == {c \in (0..(W - 1)) \X (0..(H - 1)) : map.data[c[1] + c[2] * W + 1] > 0}
            Sq(c, o) == ((c[1] - o[1]) * (c[1] - o[1]) + (c[2] - o[2]) * (c[2] - o[2]))
                            * map.resolution * map.resolution
        IN /\ probe.result.map = map
           /\ DOMAIN stored = 0..(W * H - 1)
           /\ \A i \in 0..(W - 1), j \in 0..(H - 1) :
                 LET v == stored[i + j * W]
                 IN /\ v >= 0
                    /\ \A o \in Occ : v * v <= Sq(<<i, j>>, o)
                    /\ \E o \in Occ : Sq(<<i, j>>, o) < (v + 1) * (v + 1)
                    /\ (v = 0) <=> (<<i, j>> \in Occ)

\* C11's case: a grid that is not square, with unknown, free and occupied
\* cells, and a cell whose nearest obstacle is diagonal
C11_Witness ==
    /\ probe.op = "OccupancyField"
    /\ probe.args.width = 3 /\ probe.args.height = 2
    /\ {probe.args.data[k] : k \in 1..6} = {-1, 0, 100}
    /\ probe.result.closest_occupied[0] = 7

\* a list in reverse order
Reversed(seq) == [i \in 1..Len(seq) |-> seq[Len(seq) + 1 - i]]

\* C12: without noise update_particles_with_odom, for odometry going from
\* (x0, y0, th0) to (x1, y1, th1), moves every particle to
\* (x + cos(th + r1)*t, y + sin(th + r1)*t, th + (th1 - th0)) with
\* r1 = atan2(y1 - y0, x1 - x0) - th0 and t the length of the displacement,
\* keeps every weight, and gives each particle the result it gets alone and
\* in any processing order.
C12_NoiseFreeMotionUpdate ==
    (/\ probe.op = "update_particles_with_odom"
     /\ \A i \in DOMAIN probe.args[4] : probe.args[4][i] = <<0, 0, 0>>)
    => LET values == probe.args[1]
           old == probe.args[2]
           new == probe.args[3]
           noise == probe.args[4]
           r1 == Atan2(new[2] - old[2], new[1] - old[1]) - old[3]
           t == Norm2(new[1] - old[1], new[2] - old[2])
       IN /\ \A i \in DOMAIN values :
                /\ probe.result[i].x = values[i].x + RDiv(Cos(values[i].theta + r1) * t, 100)
                /\ probe.result[i].y = values[i].y + RDiv(Sin(values[i].theta + r1) * t, 100)
                /\ probe.result[i].theta = values[i].theta + (new[3] - old[3])
                /\ probe.result[i].w = values[i].w
                /\ probe.result[i] = Moved(<<values[i]>>, old, new, <<noise[i]>>)[1]
          /\ Moved(Reversed(values), old, new, noise) = Reversed(probe.result)

\* C12's case: a noise-free update for a displacement with a turn, from an
\* old heading that is not zero, of particles that differ
C12_Witness ==
    /\ probe.op = "update_particles_with_odom"
    /\ \A i \in DOMAIN probe.args[4] : probe.args[4][i] = <<0, 0, 0>>
    /\ probe.args[2] = <<0, 0, 49>> /\ probe.args[3] = <<3, 3, 0>>
    /\ probe.args[1][1] # probe.args[1][2]
    /\ \A i \in DOMAIN probe.args[1] : probe.result[i].x # probe.args[1][i].x

\* C13: while the distance field is not constructed no cycle runs and no
\* particle set is initialised; a scan callback delivered before the
\* constructor has finished returns with the filter state as it was,
\* publishing and raising nothing; once constructed, the distance field and
\* the stored map never change.
C13_FieldBuiltBeforeAnyCycle ==
    [][/\ ~initialized =>
            /\ particle_cloud' = <<>> /\ heap' = <<>>
            /\ cycles' = cycles
            /\ current_odom_xy_theta' = current_odom_xy_theta
            /\ translation' = translation /\ rotation' = rotation
       /\ (~initialized /\ handler'.kind = "scan") =>
            /\ handler'.steps = <<>> /\ handler'.raised = ""
            /\ published' = <<>>
            /\ robot_pose' = robot_pose
            /\ occupancy_field' = occupancy_field
       /\ occupancy_field # <<>> => occupancy_field' = occupancy_field]_vars

\* C13's case: a scan arrives after the subscribers are registered and
\* before the constructor has built the field
C13_Witness ==
    /\ ~initialized /\ occupancy_field = <<>>
    /\ handler.kind = "scan"

\* the largest shortest rotation between two headings of a particle list
HeadingSpread(values) ==
    LET D == {ShortestRotation(values[i].theta, values[j].theta) : i, j \in DOMAIN values}
    IN CHOOSE d \in D : \A e \in D : e <= d

\* the heading q (a fraction) is within spread of the heading a
HeadingWithin(q, a, spread) ==
    LET d == QWrap(QAdd(q, Q(-a)))
    IN ~IsNaN(d) /\ Abs(d.n) <= spread * d.d

\* the estimated x and y are the weighted arithmetic means of the particles
MeanOfPositions ==
    LET values == probe.args
        total == SumOfWeights(values)
        Mean(f) == QDiv(SumOfWeights([i \in DOMAIN values |->
                                        [w |-> QMul(values[i].w, Q(values[i][f]))]]), total)
    IN probe.result.x = Mean("x") /\ probe.result.y = Mean("y")

\* C14: update_robot_pose estimates x and y as the weighted arithmetic means,
\* and a heading that lies among the headings of the particles: when these
\* are all within less than a quarter turn of each other, also across
\* +pi/-pi, the estimate is within that distance of each of them.
C14_HeadingIsCircularMean ==
    probe.op = "update_robot_pose" =>
        /\ MeanOfPositions
        /\ HeadingSpread(probe.args) < TAU \div 4 =>
              \A i \in DOMAIN probe.args :
                  HeadingWithin(probe.result.theta, probe.args[i].theta,
                                HeadingSpread(probe.args))

\* nothing is broadcast before a call of fix_map_to_odom_transform has stored
\* both the translation and the rotation
NoBroadcastBeforeFirstFix ==
    main_loop.last = "sent" => translation.set /\ rotation.set

\* C15: under every interleaving of broadcast_last_transform with
\* fix_map_to_odom_transform, a transform that is broadcast is the translation
\* and the rotation produced by one call of fix_map_to_odom_transform, and
\* nothing is broadcast before the first call has stored both.
C15_BroadcastPairsAreConsistent ==
    /\ NoBroadcastBeforeFirstFix
    /\ main_loop.last = "sent" => main_loop.sent \in fix_call.produced

====
